---- MODULE Spec2Model ----
(***************************************************************************)
(* Model of the Ghost object-store storage adapter (class                  *)
(* ObjectStoreStorage): save, saveRaw, exists, delete, read and the        *)
(* request handler returned by serve, running against an S3-compatible     *)
(* object store.                                                           *)
(*                                                                         *)
(* Representation.  A JavaScript string that the code inspects character   *)
(* by character (paths, object keys, URLs) is a sequence of one-character  *)
(* strings, so that replace(/\\/g, '/') and substring(1) are computed on   *)
(* characters.  A Buffer is a sequence of one-character strings too (its   *)
(* bytes).  An error message is a sequence of fragments whose              *)
(* concatenation is the message.  An absent (undefined / null / '') value  *)
(* of a string field is the empty sequence or the empty string, which are  *)
(* falsy in JavaScript as well.                                            *)
(***************************************************************************)
EXTENDS Integers, Sequences, FiniteSets, TLC

(***************************************************************************)
(* Bounds of the model.                                                    *)
(***************************************************************************)
NumProcs == 2        \* call slots of the host (concurrently running calls)
MaxObjects == 2      \* objects the store accepts before it refuses writes

Procs == 1..NumProcs

(***************************************************************************)
(* Strings.                                                                *)
(***************************************************************************)
BACKSLASH == "\\"
SLASH == "/"

\* String.prototype.replace(/\\/g, '/')
RECURSIVE ReplaceBackslashes(_)
ReplaceBackslashes(s) ==
    IF s = <<>> THEN <<>>
    ELSE <<IF Head(s) = BACKSLASH THEN SLASH ELSE Head(s)>>
             \o ReplaceBackslashes(Tail(s))

\* String.prototype.substring(1)
Substring1(s) == IF Len(s) <= 1 THEN <<>> ELSE SubSeq(s, 2, Len(s))

(***************************************************************************)
(* Configuration (constructor defaults).                                   *)
(***************************************************************************)
storagePath == <<"c","o","n","t","e","n","t","/","m","e","d","i","a","/">>
staticFileURLPrefix == <<"c","o","n","t","e","n","t","/","m","e","d","i","a","/">>

(***************************************************************************)
(* Errors.  origin "store" marks an error object produced by the S3 client *)
(* (or raised while draining a body stream); origin "adapter" marks an     *)
(* object created by a `new Error(...)` of the adapter.  Two error values  *)
(* are the same object only if they are equal, origin included.            *)
(***************************************************************************)
StoreError(name, statusCode, text) ==
    [origin |-> "store", name |-> name, statusCode |-> statusCode,
     message |-> <<text>>]

ErrNotFound == StoreError("NotFound", 404, "Not Found")
ErrNoSuchKey == StoreError("NoSuchKey", 0, "The specified key does not exist.")
ErrInternal == StoreError("Error", 0, "Internal error")
ErrNoSuchBucket == StoreError("NoSuchBucket", 404, "The specified bucket does not exist")
\* `for await (... of null)`: response.Body is not async iterable
ErrTypeError == StoreError("TypeError", 0, "response.Body is not async iterable")

NoError == [origin |-> "none", name |-> "", statusCode |-> 0, message |-> <<>>]

\* failures any request may meet, whatever the state of the bucket
GeneralErrors == {ErrInternal, ErrNoSuchBucket}

\* new Error(`${prefix}${tail}`)
NewError(prefix, tail) ==
    [origin |-> "adapter", name |-> "Error", statusCode |-> 0,
     message |-> <<prefix>> \o tail]

SaveErrorPrefix == "Failed to save file to Object Store: "
SaveRawErrorPrefix == "Failed to save buffer to Object Store: "
DeleteErrorPrefix == "Failed to delete file from Object Store: "
ReadErrorPrefix == "Failed to read file from Object Store: "
NotFoundErrorPrefix == "File not found: "

(***************************************************************************)
(* Helpers inherited from the storage base class (ghost-storage-base).     *)
(* sep is the path separator of the platform (path.sep).                   *)
(***************************************************************************)
Year == <<"2","0","2","6">>
Month == <<"1","1">>

IsSep(c, sep) == c = SLASH \/ (sep = BACKSLASH /\ c = BACKSLASH)

\* path.normalize: every run of separators becomes one platform separator
RECURSIVE PathNormalize(_, _)
PathNormalize(s, sep) ==
    IF s = <<>> THEN <<>>
    ELSE IF IsSep(Head(s), sep)
         THEN IF Len(s) > 1 /\ IsSep(s[2], sep)
              THEN PathNormalize(Tail(s), sep)
              ELSE <<sep>> \o PathNormalize(Tail(s), sep)
         ELSE <<Head(s)>> \o PathNormalize(Tail(s), sep)

\* path.join(a, b)
PathJoin(a, b, sep) ==
    IF a = <<>> THEN PathNormalize(b, sep)
    ELSE PathNormalize(a \o <<sep>> \o b, sep)

\* StorageBase.getTargetDir(baseDir): baseDir/YYYY/MM
getTargetDir(baseDir, sep) == PathJoin(PathJoin(baseDir, Year, sep), Month, sep)

\* the i-th candidate of StorageBase.generateUnique: name, name-1, name-2, ...
Candidate(file, i) ==
    file.stem \o (IF i = 0 THEN <<>> ELSE <<"-", ToString(i)>>) \o file.ext

(***************************************************************************)
(* Inputs the host passes.                                                 *)
(***************************************************************************)
\* file descriptors of save: file.name = stem \o ext, file.type ("" when
\* undefined), file.contents (when hasContents) and file.path
Files ==
    { [stem |-> <<"a">>, ext |-> <<".","j","p","g">>, type |-> "image/jpeg",
       hasContents |-> TRUE, contents |-> <<"h","i">>, path |-> <<"/","t">>],
      [stem |-> <<"b">>, ext |-> <<>>, type |-> "",
       hasContents |-> FALSE, contents |-> <<>>, path |-> <<"/","u">>] }

MediaDir == <<"c","o","n","t","e","n","t","/","m","e","d","i","a">>
MonthDir == MediaDir \o <<"/">> \o Year \o <<"/">> \o Month

\* targetDir of save, exists and delete (<<>>: not given)
TargetDirs == { <<>>, <<"/","i","m","a","g","e","s">>, MediaDir, MonthDir }

\* fileName of exists and delete
FileNames == { <<"f">>, <<"a",".","j","p","g">> }

Buffers == { <<>>, <<"x","y","z">> }

\* targetPath of saveRaw
TargetPaths == { <<"f">>, <<"d","/","f">>, <<"d","\\","f">> }

\* options.path of read
ReadPaths == { MediaDir \o <<"/","f">>, MediaDir \o <<"/","d","/","f">>,
               MonthDir \o <<"/","a",".","j","p","g">>, <<"n","o","n","e">> }

\* req.path of the serve handler (Express paths begin with a slash)
RequestPaths == { <<"/","f">>, <<"/">> \o Year \o <<"/">> \o Month
                                    \o <<"/","a",".","j","p","g">>,
                 <<"/","n","o","n","e">> }

NoFile == [stem |-> <<>>, ext |-> <<>>, type |-> "", hasContents |-> FALSE,
           contents |-> <<>>, path |-> <<>>]
NoArg == [file |-> NoFile, dir |-> <<>>, name |-> <<>>, buffer |-> <<>>]

(***************************************************************************)
(* The object store: a bucket mapping object keys to stored objects, and   *)
(* the requests sent to it.                                                *)
(***************************************************************************)
Request(cmd, key, body, contentType) ==
    [cmd |-> cmd, Key |-> key, Body |-> body, ContentType |-> contentType]

StoredObject(req) == [Body |-> req.Body, ContentType |-> req.ContentType]

\* dates of the store: day since 1970-01-01 and millisecond of that day
Date(day, ms) == [present |-> TRUE, day |-> day, ms |-> ms]
NoDate == [present |-> FALSE, day |-> 0, ms |-> 0]
LastModifiedValues == { NoDate, Date(20391, 0), Date(19783, 3723004) }
ETagValues == { "", "\"test-etag\"" }

\* response of GetObjectCommand
GetResponse(obj, hasBody, etag, lastModified) ==
    [hasBody |-> hasBody, Body |-> IF hasBody THEN obj.Body ELSE <<>>,
     ContentType |-> obj.ContentType, ETag |-> etag,
     LastModified |-> lastModified]

\* the errors a request for a missing key fails with
MissingErrors(cmd) ==
    IF cmd = "Head" THEN {ErrNotFound}
    ELSE IF cmd = "Get" THEN {ErrNoSuchKey, ErrNotFound}
    ELSE {}

VARIABLES
    sep,      \* path.sep of the platform the adapter runs on
    store,    \* the bucket: object key -> stored object
    pc,       \* per call slot: where the call stands
    op,       \* per call slot: the operation invoked
    arg,      \* per call slot: its arguments
    loc,      \* per call slot: its local variables
    reqs,     \* per call slot: the requests it sent to the store, in order
    ret,      \* per call slot: what the caller received
    out,      \* per call slot: the calls made on res and next, in order
    lastRead  \* object key -> the first read since the key was written

vars == <<sep, store, pc, op, arg, loc, reqs, ret, out, lastRead>>

NoLoc == [i |-> 0, fileName |-> <<>>, objectKey |-> <<>>, cause |-> NoError,
          response |-> GetResponse([Body |-> <<>>, ContentType |-> ""],
                                   FALSE, "", NoDate),
          stream |-> <<>>, chunks |-> <<>>, piping |-> FALSE]

Pending == [kind |-> "pending", url |-> <<>>, bool |-> FALSE,
            buffer |-> <<>>, error |-> NoError]
ReturnUrl(u) == [Pending EXCEPT !.kind = "url", !.url = u]
ReturnBool(b) == [Pending EXCEPT !.kind = "bool", !.bool = b]
ReturnVoid == [Pending EXCEPT !.kind = "void"]
ReturnBuffer(b) == [Pending EXCEPT !.kind = "buffer", !.buffer = b]
Throw(e) == [Pending EXCEPT !.kind = "error", !.error = e]

Init ==
    /\ sep \in {SLASH, BACKSLASH}
    /\ store = [k \in {} |-> NoFile]
    /\ pc = [p \in Procs |-> "idle"]
    /\ op = [p \in Procs |-> "none"]
    /\ arg = [p \in Procs |-> NoArg]
    /\ loc = [p \in Procs |-> NoLoc]
    /\ reqs = [p \in Procs |-> <<>>]
    /\ ret = [p \in Procs |-> Pending]
    /\ out = [p \in Procs |-> <<>>]
    /\ lastRead = [k \in {} |-> [buffer |-> <<>>, again |-> FALSE]]

(***************************************************************************)
(* s3Client.send: the outcomes of a request in the current bucket.         *)
(* NoError stands for a resolved promise, an error for a rejected one.     *)
(***************************************************************************)
Outcomes(req) ==
    GeneralErrors \cup
    (CASE req.cmd \in {"Head", "Get"} ->
            IF req.Key \in DOMAIN store THEN {NoError}
            ELSE MissingErrors(req.cmd)
       [] req.cmd = "Put" ->
            IF req.Key \in DOMAIN store \/ Cardinality(DOMAIN store) < MaxObjects
            THEN {NoError} ELSE {}
       [] OTHER -> {NoError})

Without(f, k) == [x \in DOMAIN f \ {k} |-> f[x]]

\* the bucket after a successful request
Applied(req) ==
    CASE req.cmd = "Put" -> (req.Key :> StoredObject(req)) @@ store
      [] req.cmd = "Delete" -> Without(store, req.Key)
      [] OTHER -> store

\* reads remembered for a key are forgotten when the key is written or deleted
Forget(req) ==
    IF req.cmd \in {"Put", "Delete"} THEN Without(lastRead, req.Key)
    ELSE lastRead

\* a request that is attempted a second time
SendTwice(p, req, e) ==
    /\ e \in Outcomes(req)
    /\ reqs' = [reqs EXCEPT ![p] = Append(Append(@, req), req)]
    /\ store' = IF e = NoError THEN Applied(req) ELSE store
    /\ lastRead' = IF e = NoError THEN Forget(req) ELSE lastRead

\* one request sent by call p, answered with outcome e
Send(p, req, e) ==
    /\ e \in Outcomes(req)
    /\ reqs' = [reqs EXCEPT ![p] = Append(@, req)]
    /\ store' = IF e = NoError THEN Applied(req) ELSE store
    /\ lastRead' = IF e = NoError THEN Forget(req) ELSE lastRead

(***************************************************************************)
(* The host invokes an operation on an idle call slot.                     *)
(***************************************************************************)
Invoke(p, name, a, first) ==
    /\ pc[p] = "idle"
    /\ op' = [op EXCEPT ![p] = name]
    /\ arg' = [arg EXCEPT ![p] = a]
    /\ pc' = [pc EXCEPT ![p] = first]
    /\ ret' = [ret EXCEPT ![p] = Pending]
    /\ reqs' = [reqs EXCEPT ![p] = <<>>]
    /\ out' = [out EXCEPT ![p] = <<>>]
    /\ UNCHANGED <<sep, store, lastRead>>

Finish(p, r) ==
    /\ pc' = [pc EXCEPT ![p] = "done"]
    /\ ret' = [ret EXCEPT ![p] = r]

\* the caller has taken the result; the slot is free again
Return(p) ==
    /\ pc[p] = "done"
    /\ ~loc[p].piping
    /\ pc' = [pc EXCEPT ![p] = "idle"]
    /\ op' = [op EXCEPT ![p] = "none"]
    /\ arg' = [arg EXCEPT ![p] = NoArg]
    /\ loc' = [loc EXCEPT ![p] = NoLoc]
    /\ ret' = [ret EXCEPT ![p] = Pending]
    /\ reqs' = [reqs EXCEPT ![p] = <<>>]
    /\ out' = [out EXCEPT ![p] = <<>>]
    /\ UNCHANGED <<sep, store, lastRead>>

(***************************************************************************)
(* exists(fileName, targetDir) and delete(fileName, targetDir)             *)
(***************************************************************************)
\* (targetDir ? `${targetDir}/` : '') + fileName
ExistsKey(fileName, targetDir) ==
    (IF targetDir # <<>> THEN targetDir \o <<SLASH>> ELSE <<>>) \o fileName

ExistsResultByStatus(e) ==
    IF e = NoError THEN ReturnBool(TRUE)
    ELSE IF e.name = "NotFound" \/ e.statusCode = 404 THEN ReturnBool(FALSE)
    ELSE Throw(e)

\* what exists makes of the outcome e of its head request
ExistsResult(e) ==
    IF e = NoError THEN ReturnBool(TRUE)
    ELSE IF e.name = "NotFound" THEN ReturnBool(FALSE)
    ELSE Throw(e)

CallExists(p, fileName, targetDir) ==
    /\ Invoke(p, "exists", [NoArg EXCEPT !.name = fileName, !.dir = targetDir],
              "head")
    /\ loc' = [loc EXCEPT ![p] =
                 [NoLoc EXCEPT !.objectKey = ExistsKey(fileName, targetDir)]]

ExistsSend(p) ==
    /\ pc[p] = "head"
    /\ \E e \in GeneralErrors \cup MissingErrors("Head") \cup {NoError} :
         /\ Send(p, Request("Head", loc[p].objectKey, <<>>, ""), e)
         /\ loc' = [loc EXCEPT ![p].cause = e]
         /\ Finish(p, ExistsResult(e))
    /\ UNCHANGED <<sep, op, arg, out>>

DeleteKey(fileName, targetDir) ==
    (IF targetDir # <<>> THEN targetDir \o <<SLASH>> ELSE <<>>) \o fileName

DeleteResultRethrow(e) ==
    IF e = NoError THEN ReturnVoid ELSE Throw(e)

DeleteResult(e) ==
    IF e = NoError THEN ReturnVoid
    ELSE Throw(NewError(DeleteErrorPrefix, e.message))

CallDelete(p, fileName, targetDir) ==
    /\ Invoke(p, "delete", [NoArg EXCEPT !.name = fileName, !.dir = targetDir],
              "del")
    /\ loc' = [loc EXCEPT ![p] =
                 [NoLoc EXCEPT !.objectKey = DeleteKey(fileName, targetDir)]]

DeleteSend(p) ==
    /\ pc[p] = "del"
    /\ \E e \in GeneralErrors \cup {NoError} :
         /\ Send(p, Request("Delete", loc[p].objectKey, <<>>, ""), e)
         /\ loc' = [loc EXCEPT ![p].cause = e]
         /\ Finish(p, DeleteResult(e))
    /\ UNCHANGED <<sep, op, arg, out>>

(***************************************************************************)
(* save(file, targetDir)                                                   *)
(***************************************************************************)
\* const storagePath = this.getTargetDir(this.storagePath)
SaveDir == getTargetDir(storagePath, sep)

\* String.prototype.replace('\\', '/'): only the first backslash
RECURSIVE ReplaceFirstBackslash(_)
ReplaceFirstBackslash(s) ==
    IF s = <<>> THEN <<>>
    ELSE IF Head(s) = BACKSLASH THEN <<SLASH>> \o Tail(s)
    ELSE <<Head(s)>> \o ReplaceFirstBackslash(Tail(s))

SaveKeyFirstOnly(fileName) == ReplaceFirstBackslash(fileName)

\* const objectKey = fileName.replace(/\\/g, '/')
SaveKey(fileName) == ReplaceBackslashes(fileName)

\* Body: file.contents || file.path
SaveBody(file) == IF file.hasContents THEN file.contents ELSE file.path

SaveRequest(file, objectKey) ==
    Request("Put", objectKey, SaveBody(file), file.type)

\* return `/${objectKey}`
UrlOf(objectKey) == <<SLASH>> \o objectKey

SaveResult(objectKey, e) ==
    IF e = NoError THEN ReturnUrl(UrlOf(objectKey))
    ELSE Throw(NewError(SaveErrorPrefix, e.message))

CallSave(p, file, targetDir) ==
    /\ Invoke(p, "save", [NoArg EXCEPT !.file = file, !.dir = targetDir],
              "unique")
    /\ loc' = [loc EXCEPT ![p] = NoLoc]

\* One round of getUniqueFileName(file, storagePath): the base class asks
\* this.exists for the i-th candidate and either tries the next one, settles
\* on path.join(dir, candidate), or rejects with what exists threw.  The
\* helper is awaited outside the try block of save.
UniqueFileName(p) ==
    /\ pc[p] = "unique"
    /\ LET candidate == Candidate(arg[p].file, loc[p].i)
           req == Request("Head", ExistsKey(candidate, SaveDir), <<>>, "")
       IN \E e \in GeneralErrors \cup MissingErrors("Head") \cup {NoError} :
            /\ Send(p, req, e)
            /\ LET r == ExistsResult(e)
               IN CASE r.kind = "error" ->
                         /\ loc' = [loc EXCEPT ![p].cause = e]
                         /\ Finish(p, Throw(r.error))
                    [] r.kind = "bool" /\ r.bool ->
                         /\ loc' = [loc EXCEPT ![p].i = @ + 1]
                         /\ UNCHANGED <<pc, ret>>
                    [] OTHER ->
                         /\ loc' = [loc EXCEPT
                                      ![p].fileName = PathJoin(SaveDir, candidate, sep),
                                      ![p].objectKey =
                                          SaveKey(PathJoin(SaveDir, candidate, sep))]
                         /\ pc' = [pc EXCEPT ![p] = "put"]
                         /\ UNCHANGED ret
    /\ UNCHANGED <<sep, op, arg, out>>

SaveSend(p) ==
    /\ pc[p] = "put"
    /\ op[p] = "save"
    /\ \E e \in GeneralErrors \cup {NoError} :
         /\ Send(p, SaveRequest(arg[p].file, loc[p].objectKey), e)
         /\ loc' = [loc EXCEPT ![p].cause = e]
         /\ Finish(p, SaveResult(loc[p].objectKey, e))
    /\ UNCHANGED <<sep, op, arg, out>>

(***************************************************************************)
(* saveRaw(buffer, targetPath)                                             *)
(***************************************************************************)
SaveRawKeyUnnormalized(targetPath) == staticFileURLPrefix \o targetPath

\* `${this.staticFileURLPrefix}${targetPath.replace(/\\/g, '/')}`
SaveRawKey(targetPath) == staticFileURLPrefix \o ReplaceBackslashes(targetPath)

\* the command of saveRaw has no ContentType
SaveRawRequest(buffer, objectKey) == Request("Put", objectKey, buffer, "")

SaveRawResult(objectKey, e) ==
    IF e = NoError THEN ReturnUrl(UrlOf(objectKey))
    ELSE Throw(NewError(SaveRawErrorPrefix, e.message))

CallSaveRaw(p, buffer, targetPath) ==
    /\ Invoke(p, "saveRaw",
              [NoArg EXCEPT !.buffer = buffer, !.name = targetPath], "put")
    /\ loc' = [loc EXCEPT ![p] =
                 [NoLoc EXCEPT !.objectKey = SaveRawKey(targetPath)]]

SaveRawSend(p) ==
    /\ pc[p] = "put"
    /\ op[p] = "saveRaw"
    /\ \E e \in GeneralErrors \cup {NoError} :
         /\ Send(p, SaveRawRequest(arg[p].buffer, loc[p].objectKey), e)
         /\ loc' = [loc EXCEPT ![p].cause = e]
         /\ Finish(p, SaveRawResult(loc[p].objectKey, e))
    /\ UNCHANGED <<sep, op, arg, out>>

(***************************************************************************)
(* read(options)                                                           *)
(***************************************************************************)
\* the ways a body can arrive as a sequence of non-empty chunks
RECURSIVE Chunkings(_)
Chunkings(body) ==
    IF body = <<>> THEN {<<>>}
    ELSE UNION { { <<SubSeq(body, 1, n)>> \o rest :
                     rest \in Chunkings(SubSeq(body, n + 1, Len(body))) } :
                 n \in 1..Len(body) }

\* failures of a body stream while it is drained
StreamErrors == {ErrInternal, ErrNoSuchKey}

RECURSIVE BufferConcatReversed(_)
BufferConcatReversed(chunks) ==
    IF chunks = <<>> THEN <<>>
    ELSE BufferConcatReversed(Tail(chunks)) \o Head(chunks)

\* Buffer.concat(chunks)
RECURSIVE BufferConcat(_)
BufferConcat(chunks) ==
    IF chunks = <<>> THEN <<>> ELSE Head(chunks) \o BufferConcat(Tail(chunks))

ReadFailureByNotFound(path, e) ==
    IF e.name = "NotFound" THEN Throw(NewError(NotFoundErrorPrefix, path))
    ELSE Throw(NewError(ReadErrorPrefix, e.message))

\* the catch block of read
ReadFailure(path, e) ==
    IF e.name = "NoSuchKey" THEN Throw(NewError(NotFoundErrorPrefix, path))
    ELSE Throw(NewError(ReadErrorPrefix, e.message))

CallRead(p, path) ==
    /\ Invoke(p, "read", [NoArg EXCEPT !.name = path], "get")
    /\ loc' = [loc EXCEPT ![p] = [NoLoc EXCEPT !.objectKey = path]]

ReadSend(p) ==
    /\ pc[p] = "get"
    /\ op[p] = "read"
    /\ LET req == Request("Get", loc[p].objectKey, <<>>, "")
       IN \E e \in GeneralErrors \cup MissingErrors("Get") \cup {NoError} :
            /\ Send(p, req, e)
            /\ IF e # NoError
               THEN /\ loc' = [loc EXCEPT ![p].cause = e]
                    /\ Finish(p, ReadFailure(arg[p].name, e))
               ELSE \E hasBody \in BOOLEAN, etag \in ETagValues,
                       lastModified \in LastModifiedValues :
                      LET response == GetResponse(store[req.Key], hasBody,
                                                  etag, lastModified)
                      IN IF ~response.hasBody
                         THEN \* iterating a null Body throws inside the try
                              /\ loc' = [loc EXCEPT ![p].cause = ErrTypeError]
                              /\ Finish(p, ReadFailure(arg[p].name, ErrTypeError))
                         ELSE \E stream \in Chunkings(response.Body) :
                                /\ loc' = [loc EXCEPT
                                             ![p].response = response,
                                             ![p].stream = stream]
                                /\ pc' = [pc EXCEPT ![p] = "drain"]
                                /\ UNCHANGED ret
    /\ UNCHANGED <<sep, op, arg, out>>

\* for await (const chunk of response.Body) chunks.push(chunk)
ReadChunk(p) ==
    /\ pc[p] = "drain"
    /\ loc[p].stream # <<>>
    /\ loc' = [loc EXCEPT ![p].chunks = Append(@, Head(loc[p].stream)),
                          ![p].stream = Tail(@)]
    /\ UNCHANGED <<sep, store, pc, op, arg, reqs, ret, out, lastRead>>

\* the stream fails before its end
ReadStreamError(p) ==
    /\ pc[p] = "drain"
    /\ \E e \in StreamErrors :
         /\ loc' = [loc EXCEPT ![p].cause = e]
         /\ Finish(p, ReadFailure(arg[p].name, e))
    /\ UNCHANGED <<sep, store, op, arg, reqs, out, lastRead>>

\* the object read by call p has not been written or deleted since
Unwritten(p) ==
    /\ loc[p].objectKey \in DOMAIN store
    /\ store[loc[p].objectKey].Body = loc[p].response.Body

\* return Buffer.concat(chunks)
ReadEnd(p) ==
    /\ pc[p] = "drain"
    /\ loc[p].stream = <<>>
    /\ Finish(p, ReturnBuffer(BufferConcat(loc[p].chunks)))
    /\ lastRead' =
         IF ~Unwritten(p) THEN lastRead
         ELSE IF loc[p].objectKey \in DOMAIN lastRead
         THEN [lastRead EXCEPT ![loc[p].objectKey].again = TRUE]
         ELSE (loc[p].objectKey :>
                 [buffer |-> BufferConcat(loc[p].chunks), again |-> FALSE])
              @@ lastRead
    /\ UNCHANGED <<sep, store, op, arg, loc, reqs, out>>

(***************************************************************************)
(* Date.prototype.toUTCString                                              *)
(***************************************************************************)
DayNames == <<"Sun", "Mon", "Tue", "Wed", "Thu", "Fri", "Sat">>
MonthNames == <<"Jan", "Feb", "Mar", "Apr", "May", "Jun",
                "Jul", "Aug", "Sep", "Oct", "Nov", "Dec">>

Pad2(n) == IF n < 10 THEN "0" \o ToString(n) ELSE ToString(n)

\* year, month and day of month of a day number (proleptic Gregorian)
CivilFromDays(day) ==
    LET z == day + 719468
        era == z \div 146097
        doe == z - era * 146097
        yoe == (doe - doe \div 1460 + doe \div 36524 - doe \div 146096) \div 365
        doy == doe - (365 * yoe + yoe \div 4 - yoe \div 100)
        mp == (5 * doy + 2) \div 153
        d == doy - (153 * mp + 2) \div 5 + 1
        m == IF mp < 10 THEN mp + 3 ELSE mp - 9
        y == yoe + era * 400 + (IF m <= 2 THEN 1 ELSE 0)
    IN [year |-> y, month |-> m, date |-> d]

\* "Thu, 30 Oct 2025 00:00:00 GMT": the milliseconds are dropped
toUTCString(date) ==
    LET c == CivilFromDays(date.day)
        secs == date.ms \div 1000
    IN DayNames[((date.day + 4) % 7) + 1] \o ", " \o Pad2(c.date) \o " "
         \o MonthNames[c.month] \o " " \o ToString(c.year) \o " "
         \o Pad2(secs \div 3600) \o ":" \o Pad2((secs \div 60) % 60) \o ":"
         \o Pad2(secs % 60) \o " GMT"

(***************************************************************************)
(* serve(): the request handler (req, res, next)                           *)
(***************************************************************************)
NoEvent == [call |-> "", name |-> "", value |-> <<>>, code |-> 0,
            error |-> NoError]
ResSet(name, value) == [NoEvent EXCEPT !.call = "set", !.name = name,
                                       !.value = value]
ResStatus(code) == [NoEvent EXCEPT !.call = "status", !.code = code]
ResSend(text) == [NoEvent EXCEPT !.call = "send", !.value = <<text>>]
BodyPipe(body) == [NoEvent EXCEPT !.call = "pipe", !.value = body]
NextCall(e) == [NoEvent EXCEPT !.call = "next", !.error = e]

CacheControl == "public, max-age=31536000"

\* `${this.staticFileURLPrefix}${req.path.substring(1)}`
ServeKey(reqPath) == staticFileURLPrefix \o Substring1(reqPath)

\* res.status(404).send('File not found')
NotFoundReply == <<ResStatus(404), ResSend("File not found")>>

ServeHeadersUnguarded(response) ==
    <<ResSet("Content-Type", <<response.ContentType>>),
      ResSet("Cache-Control", <<CacheControl>>)>>
    \o (IF response.ETag # ""
        THEN <<ResSet("ETag", <<response.ETag>>)>> ELSE <<>>)
    \o (IF response.LastModified.present
        THEN <<ResSet("Last-Modified", <<toUTCString(response.LastModified)>>)>>
        ELSE <<>>)

\* the headers the handler sets, in the order of the code
ServeHeaders(response) ==
    (IF response.ContentType # ""
     THEN <<ResSet("Content-Type", <<response.ContentType>>)>> ELSE <<>>)
    \o <<ResSet("Cache-Control", <<CacheControl>>)>>
    \o (IF response.ETag # ""
        THEN <<ResSet("ETag", <<response.ETag>>)>> ELSE <<>>)
    \o (IF response.LastModified.present
        THEN <<ResSet("Last-Modified", <<toUTCString(response.LastModified)>>)>>
        ELSE <<>>)

\* the 404 reply not kept in an else branch
ServeSuccessNoElse(response) ==
    ServeHeaders(response)
    \o (IF response.hasBody THEN <<BodyPipe(response.Body)>> ELSE <<>>)
    \o NotFoundReply

\* the try block after the read has succeeded
ServeSuccess(response) ==
    ServeHeaders(response)
    \o (IF response.hasBody THEN <<BodyPipe(response.Body)>>
        ELSE NotFoundReply)

ServeFailureByName(e) ==
    IF e.name = "NotFound" THEN NotFoundReply ELSE <<NextCall(e)>>

\* the catch block
ServeFailure(e) ==
    IF e.name = "NotFound" \/ e.statusCode = 404 THEN NotFoundReply
    ELSE <<NextCall(e)>>

CallServe(p, reqPath) ==
    /\ Invoke(p, "serve", [NoArg EXCEPT !.name = reqPath], "get")
    /\ loc' = [loc EXCEPT ![p] = [NoLoc EXCEPT !.objectKey = ServeKey(reqPath)]]

\* The handler does not await the pipe: it returns as soon as the transfer
\* has been started.
ServeSend(p) ==
    /\ pc[p] = "get"
    /\ op[p] = "serve"
    /\ LET req == Request("Get", loc[p].objectKey, <<>>, "")
       IN \E e \in GeneralErrors \cup MissingErrors("Get") \cup {NoError} :
            /\ Send(p, req, e)
            /\ IF e # NoError
               THEN /\ loc' = [loc EXCEPT ![p].cause = e]
                    /\ out' = [out EXCEPT ![p] = ServeFailure(e)]
               ELSE \E hasBody \in BOOLEAN, etag \in ETagValues,
                       lastModified \in LastModifiedValues :
                      LET response == GetResponse(store[req.Key], hasBody,
                                                  etag, lastModified)
                      IN /\ loc' = [loc EXCEPT ![p].response = response,
                                               ![p].piping = response.hasBody]
                         /\ out' = [out EXCEPT ![p] = ServeSuccess(response)]
            /\ Finish(p, ReturnVoid)
    /\ UNCHANGED <<sep, op, arg>>

\* the piped transfer of the body to the response comes to its end
PipeEnd(p) ==
    /\ loc[p].piping
    /\ loc' = [loc EXCEPT ![p].piping = FALSE]
    /\ UNCHANGED <<sep, store, pc, op, arg, reqs, ret, out, lastRead>>

(***************************************************************************)
(* The adapter serving one call at a time: the host invokes an operation   *)
(* only when no other call is running.                                     *)
(***************************************************************************)
Alone(p) == \A q \in Procs \ {p} : pc[q] = "idle"

Next ==
    \E p \in Procs :
      \/ \E file \in Files, targetDir \in TargetDirs :
           Alone(p) /\ CallSave(p, file, targetDir)
      \/ UniqueFileName(p)
      \/ SaveSend(p)
      \/ \E buffer \in Buffers, targetPath \in TargetPaths :
           Alone(p) /\ CallSaveRaw(p, buffer, targetPath)
      \/ SaveRawSend(p)
      \/ \E fileName \in FileNames, targetDir \in TargetDirs :
           Alone(p) /\ CallExists(p, fileName, targetDir)
      \/ ExistsSend(p)
      \/ \E fileName \in FileNames, targetDir \in TargetDirs :
           Alone(p) /\ CallDelete(p, fileName, targetDir)
      \/ DeleteSend(p)
      \/ \E path \in ReadPaths : Alone(p) /\ CallRead(p, path)
      \/ ReadSend(p)
      \/ ReadChunk(p)
      \/ ReadStreamError(p)
      \/ ReadEnd(p)
      \/ \E reqPath \in RequestPaths : Alone(p) /\ CallServe(p, reqPath)
      \/ ServeSend(p)
      \/ PipeEnd(p)
      \/ Return(p)

Spec == Init /\ [][Next]_vars

(***************************************************************************)
(* The adapter serving concurrent calls of save, saveRaw and delete that   *)
(* meet on the keys save writes: no call waits for another, and the steps  *)
(* of the calls (each up to its next await) interleave freely.             *)
(***************************************************************************)
\* a targetPath of saveRaw that names the object save writes for a.jpg
MonthPath == Year \o <<"/">> \o Month \o <<"/","a",".","j","p","g">>

InitRace == Init /\ sep = SLASH

NextRace ==
    \E p \in Procs :
      \/ \E file \in Files : CallSave(p, file, <<>>)
      \/ UniqueFileName(p)
      \/ SaveSend(p)
      \/ CallSaveRaw(p, <<"x","y","z">>, MonthPath)
      \/ SaveRawSend(p)
      \/ CallDelete(p, <<"a",".","j","p","g">>, MonthDir)
      \/ DeleteSend(p)
      \/ Return(p)

SpecRace == InitRace /\ [][NextRace]_vars

(***************************************************************************)
(* Properties.                                                             *)
(***************************************************************************)
Done(p, name) == pc[p] = "done" /\ op[p] = name
LastRequest(p) == reqs[p][Len(reqs[p])]

\* s with every backslash replaced by a slash, character by character
Normalized(s) == [i \in 1..Len(s) |-> IF s[i] = BACKSLASH THEN SLASH ELSE s[i]]

\* the write request of call p was sent and succeeded
WriteSucceeded(p) ==
    /\ reqs[p] # <<>>
    /\ LastRequest(p).cmd = "Put"
    /\ loc[p].cause = NoError

\* C1: when its write request succeeds, save returns '/' + K, where K is the
\* file name chosen by the uniqueness helper with every backslash replaced
\* by '/', K is the key of the write request, and the URL has no backslash.
SaveReturnsSlashKey ==
    \A p \in Procs :
      Done(p, "save") /\ WriteSucceeded(p) =>
        /\ ret[p].kind = "url"
        /\ ret[p].url = <<SLASH>> \o Normalized(loc[p].fileName)
        /\ LastRequest(p).Key = Normalized(loc[p].fileName)
        /\ \A i \in 1..Len(ret[p].url) : ret[p].url[i] # BACKSLASH

\* a save has succeeded for a file name in which the helper left backslashes
SaveReturnsSlashKeyWitness ==
    \E p \in Procs :
      /\ Done(p, "save") /\ WriteSucceeded(p)
      /\ Cardinality({i \in 1..Len(loc[p].fileName) :
                        loc[p].fileName[i] = BACKSLASH}) > 1

\* C2: when its write request succeeds, saveRaw returns
\* '/' + staticFileURLPrefix + N(targetPath); the write request has the key
\* staticFileURLPrefix + N(targetPath) and no content type.
SaveRawReturnsPrefixedPath ==
    \A p \in Procs :
      Done(p, "saveRaw") /\ WriteSucceeded(p) =>
        /\ ret[p].kind = "url"
        /\ ret[p].url = <<SLASH>> \o staticFileURLPrefix \o Normalized(arg[p].name)
        /\ LastRequest(p).Key = staticFileURLPrefix \o Normalized(arg[p].name)
        /\ LastRequest(p).Key = Tail(ret[p].url)
        /\ LastRequest(p).ContentType = ""
        /\ LastRequest(p).Body = arg[p].buffer

\* a saveRaw has succeeded for a target path with a backslash
SaveRawReturnsPrefixedPathWitness ==
    \E p \in Procs :
      /\ Done(p, "saveRaw") /\ WriteSucceeded(p)
      /\ \E i \in 1..Len(arg[p].name) : arg[p].name[i] = BACKSLASH

\* C3: exists returns true when the head request succeeds, false if and only
\* if it fails with an error named NotFound, and otherwise throws the very
\* error object the store produced.
ExistsClassifiesNotFound ==
    \A p \in Procs :
      Done(p, "exists") =>
        /\ Len(reqs[p]) = 1 /\ reqs[p][1].cmd = "Head"
        /\ loc[p].cause = NoError => ret[p] = ReturnBool(TRUE)
        /\ ret[p] = ReturnBool(FALSE)
             <=> (loc[p].cause # NoError /\ loc[p].cause.name = "NotFound")
        /\ (loc[p].cause # NoError /\ loc[p].cause.name # "NotFound") =>
             /\ ret[p].kind = "error"
             /\ ret[p].error = loc[p].cause
             /\ ret[p].error.origin = "store"

\* exists has met a failure with status 404 that is not named NotFound
ExistsClassifiesNotFoundWitness ==
    \E p \in Procs :
      /\ Done(p, "exists")
      /\ loc[p].cause.statusCode = 404
      /\ loc[p].cause.name # "NotFound"
      /\ ret[p].kind = "error"

\* C4: delete sends a delete request for the key exists would check
\* (targetDir + '/' + fileName when targetDir is given, else fileName),
\* resolves with no value on success and fails with a new error
\* 'Failed to delete file from Object Store: ' + cause message otherwise.
DeleteWrapsFailure ==
    \A p \in Procs :
      Done(p, "delete") =>
        /\ Len(reqs[p]) = 1 /\ reqs[p][1].cmd = "Delete"
        /\ reqs[p][1].Key = ExistsKey(arg[p].name, arg[p].dir)
        /\ reqs[p][1].Key =
             IF arg[p].dir # <<>> THEN arg[p].dir \o <<"/">> \o arg[p].name
             ELSE arg[p].name
        /\ loc[p].cause = NoError => ret[p] = ReturnVoid
        /\ loc[p].cause # NoError =>
             /\ ret[p].kind = "error"
             /\ ret[p].error.origin = "adapter"
             /\ ret[p].error.message =
                  <<"Failed to delete file from Object Store: ">>
                     \o loc[p].cause.message

\* a delete with a target directory has failed
DeleteWrapsFailureWitness ==
    \E p \in Procs :
      /\ Done(p, "delete")
      /\ arg[p].dir # <<>>
      /\ loc[p].cause # NoError
      /\ ret[p].kind = "error"

\* C5: whenever save or saveRaw fails, the caller receives the wrapped error
\* ('Failed to save file to Object Store: ' or 'Failed to save buffer to
\* Object Store: ' followed by the cause's message), never the raw error of
\* the store, and no URL.
SaveFailuresAreWrapped ==
    \A p \in Procs :
      /\ Done(p, "save") /\ loc[p].cause # NoError =>
           /\ ret[p].kind = "error"
           /\ ret[p].error.origin = "adapter"
           /\ ret[p].error.message =
                <<"Failed to save file to Object Store: ">> \o loc[p].cause.message
      /\ Done(p, "saveRaw") /\ loc[p].cause # NoError =>
           /\ ret[p].kind = "error"
           /\ ret[p].error.origin = "adapter"
           /\ ret[p].error.message =
                <<"Failed to save buffer to Object Store: ">> \o loc[p].cause.message

\* C6: read asks for options.path unmodified; a failure named NoSuchKey
\* becomes a new error 'File not found: ' + path, every other failure a new
\* error 'Failed to read file from Object Store: ' + cause message; the raw
\* error never reaches the caller.
ReadWrapsFailure ==
    \A p \in Procs :
      Done(p, "read") =>
        /\ Len(reqs[p]) = 1 /\ reqs[p][1].cmd = "Get"
        /\ reqs[p][1].Key = arg[p].name
        /\ ret[p].kind = "error" <=> loc[p].cause # NoError
        /\ loc[p].cause # NoError =>
             /\ ret[p].error.origin = "adapter"
             /\ ret[p].error.message =
                  IF loc[p].cause.name = "NoSuchKey"
                  THEN <<"File not found: ">> \o arg[p].name
                  ELSE <<"Failed to read file from Object Store: ">>
                          \o loc[p].cause.message

\* a read has failed with an error named NotFound, which read does not take
\* for a missing key: it is wrapped as a read failure
ReadWrapsFailureWitness ==
    \E p \in Procs :
      /\ Done(p, "read")
      /\ loc[p].cause.name = "NotFound"
      /\ ret[p].error.message =
           <<"Failed to read file from Object Store: ", "Not Found">>

\* C7: read returns the concatenation, in delivery order, of the chunks in
\* which the body arrived, which is the stored body; a second read of a key
\* that has not been written or deleted since returns the same bytes.
ReadReassemblesBody ==
    \A p \in Procs :
      Done(p, "read") /\ ret[p].kind = "buffer" =>
        /\ ret[p].buffer = loc[p].response.Body
        /\ loc[p].stream = <<>>
        /\ (Unwritten(p) /\ loc[p].objectKey \in DOMAIN lastRead) =>
              ret[p].buffer = lastRead[loc[p].objectKey].buffer

\* a key has been read a second time, its body arriving in several chunks
ReadReassemblesBodyWitness ==
    \E p \in Procs :
      /\ Done(p, "read") /\ ret[p].kind = "buffer"
      /\ Len(loc[p].chunks) > 1
      /\ loc[p].objectKey \in DOMAIN lastRead
      /\ lastRead[loc[p].objectKey].again

\* the values the handler has set for a header
HeaderValues(p, name) ==
    { out[p][i].value :
        i \in { j \in 1..Len(out[p]) :
                  out[p][j].call = "set" /\ out[p][j].name = name } }

HttpDates ==
    (Date(20391, 0) :> "Thu, 30 Oct 2025 00:00:00 GMT")
    @@ (Date(19783, 3723004) :> "Fri, 01 Mar 2024 01:02:03 GMT")

\* C8: the handler reads staticFileURLPrefix + request path without its
\* leading slash; when the read succeeds with a body it sets Cache-Control
\* always and Content-Type, ETag and Last-Modified (an HTTP date) exactly for
\* the fields present, all before it pipes the body; it sends no 404 and
\* does not call next.
ServeSetsHeadersThenPipes ==
    \A p \in Procs :
      Done(p, "serve") /\ loc[p].cause = NoError /\ loc[p].response.hasBody =>
        LET r == loc[p].response
            n == Len(out[p])
        IN /\ Len(reqs[p]) = 1 /\ reqs[p][1].cmd = "Get"
           /\ arg[p].name[1] = "/"
           /\ reqs[p][1].Key = staticFileURLPrefix \o Tail(arg[p].name)
           /\ n >= 2
           /\ out[p][n].call = "pipe" /\ out[p][n].value = r.Body
           /\ \A i \in 1..(n - 1) :
                /\ out[p][i].call = "set"
                /\ out[p][i].name \in
                     {"Content-Type", "Cache-Control", "ETag", "Last-Modified"}
           /\ HeaderValues(p, "Cache-Control") = {<<"public, max-age=31536000">>}
           /\ HeaderValues(p, "Content-Type") =
                IF r.ContentType # "" THEN {<<r.ContentType>>} ELSE {}
           /\ HeaderValues(p, "ETag") =
                IF r.ETag # "" THEN {<<r.ETag>>} ELSE {}
           /\ HeaderValues(p, "Last-Modified") =
                IF r.LastModified.present THEN {<<HttpDates[r.LastModified]>>}
                ELSE {}

\* a body with all three metadata fields has been served
ServeSetsHeadersThenPipesWitness ==
    \E p \in Procs :
      /\ Done(p, "serve") /\ loc[p].cause = NoError /\ loc[p].response.hasBody
      /\ loc[p].response.ContentType # ""
      /\ loc[p].response.ETag # ""
      /\ loc[p].response.LastModified = Date(19783, 3723004)
      /\ Len(out[p]) = 5

\* C9: when the read succeeds without a body, the handler answers 404
\* 'File not found', sets no header, pipes nothing and does not call next.
ServeNoBodyIsBare404 ==
    \A p \in Procs :
      Done(p, "serve") /\ loc[p].cause = NoError /\ ~loc[p].response.hasBody =>
        /\ out[p] = <<ResStatus(404), ResSend("File not found")>>
        /\ \A i \in 1..Len(out[p]) : out[p][i].call # "set"

\* C10: when the read throws, an error named NotFound or with statusCode 404
\* is answered with 404 'File not found' and next is not called; every other
\* error goes to next, once, as the same object, and nothing is written to
\* the response.
ServeFailureReplies ==
    \A p \in Procs :
      Done(p, "serve") /\ loc[p].cause # NoError =>
        IF loc[p].cause.name = "NotFound" \/ loc[p].cause.statusCode = 404
        THEN out[p] = <<ResStatus(404), ResSend("File not found")>>
        ELSE /\ out[p] = <<NextCall(loc[p].cause)>>
             /\ out[p][1].error.origin = "store"

\* a read has thrown a 404 that is not named NotFound and got the 404 reply
ServeFailureRepliesWitness ==
    \E p \in Procs :
      /\ Done(p, "serve")
      /\ loc[p].cause.statusCode = 404 /\ loc[p].cause.name # "NotFound"
      /\ Len(out[p]) = 2 /\ out[p][1].code = 404

KeysHaveNoLeadingSlash ==
    \A p \in Procs :
      /\ \A i \in 1..Len(reqs[p]) :
           reqs[p][i].Key # <<>> => reqs[p][i].Key[1] # "/"
      /\ ret[p].kind = "url" => (ret[p].url # <<>> /\ ret[p].url[1] = "/")

\* C13 as stated: the serve handler is never finished while the body stream
\* is still being transferred to the response.
ServeWaitsForTransfer ==
    \A p \in Procs : Done(p, "serve") => ~loc[p].piping

\* C13, amended: on the success-with-body path the handler starts the piped
\* transfer as its last action and completes without waiting for it:
\* whenever a body is being transferred the handler has finished, returning
\* no value, and its last call was the pipe of that body (no status, no
\* send, no next after it).
TransferOutlivesHandler ==
    \A p \in Procs :
      loc[p].piping =>
        /\ Done(p, "serve")
        /\ ret[p] = ReturnVoid
        /\ loc[p].cause = NoError /\ loc[p].response.hasBody
        /\ out[p] # <<>>
        /\ out[p][Len(out[p])] = BodyPipe(loc[p].response.Body)
        /\ \A i \in 1..Len(out[p]) :
             out[p][i].call \notin {"status", "send", "next"}

\* the handler has finished and the transfer of a non-empty body is going on
TransferOutlivesHandlerWitness ==
    \E p \in Procs :
      /\ Done(p, "serve")
      /\ loc[p].piping
      /\ loc[p].response.Body # <<>>

\* C14: a successful save never overwrites an existing object: when the
\* write request of a save is applied to the store, no object exists under
\* the key it writes, whatever concurrent save, saveRaw and delete calls do.
SaveNeverOverwrites ==
    [][\A p \in Procs :
         (pc[p] = "put" /\ op[p] = "save" /\ ret'[p].kind = "url")
            => loc[p].objectKey \notin DOMAIN store]_vars
====
